---- MODULE Spec2Model ----
(***************************************************************************)
(* A model of the MaiMai trainer's game core: sector classification        *)
(* (main.py), the ScoreManager (game/scoring.py) and the NoteManager       *)
(* (game/notes.py).                                                        *)
(*                                                                         *)
(* Units.  Angles given to get_hit_section are held in half degrees        *)
(* (Deg(d) = 2*d) so that the section boundaries 22.5, 67.5, ... are       *)
(* integers.  Note radii are held in half pixels (Px(p) = 2*p) so that     *)
(* NOTE_SPEED = 7.5 is the integer 15.  Note angles and hit angles of      *)
(* check_hits are whole degrees.                                           *)
(***************************************************************************)
EXTENDS Integers, Sequences, FiniteSets, TLC

VARIABLES
    angle,        \* get_hit_section: the argument, in half degrees
    section,      \* get_hit_section: the value returned ("NONE" before a call)
    score,        \* ScoreManager.score
    combo,        \* ScoreManager.combo
    max_combo,    \* ScoreManager.max_combo
    perfects,     \* ScoreManager.perfects
    greats,       \* ScoreManager.greats
    goods,        \* ScoreManager.goods
    misses,       \* ScoreManager.misses
    op,           \* the operation that made the last step
    timing,       \* the argument of the last add_hit (0 otherwise)
    calls,        \* number of ScoreManager calls made so far
    notes,        \* NoteManager.notes: the list of Note objects
    spawned,      \* number of Note objects created so far (the next note's id)
    hits,         \* the list the last check_hits returned (<<>> otherwise)
    positions,    \* the positions zipped with gestures in the last check_hits
    prev_notes,   \* NoteManager.notes as it was before the last step
    now,          \* time.time() * 1000: wall-clock milliseconds
    ticks,        \* number of times the clock has advanced
    hit_calls,    \* number of check_button_hit calls made so far
    last_hit_time,          \* MaiMaiTrainer.last_hit_time
    last_dot_time,          \* MaiMaiTrainer.last_dot_time
    last_finger_positions,  \* MaiMaiTrainer.last_finger_positions
    hit_stats,              \* MaiMaiTrainer.hit_stats
    arg_id,       \* the finger_id of the last check_button_hit
    arg_hand,     \* the hand whose fingertip the last check_button_hit was given
    last_finger_hand,  \* per finger_id, the hand whose fingertip was recorded
    accepted,     \* number of check_button_hit calls that returned True
    screen_center,     \* VideoAnalyzer.screen_center
    screen_radius,     \* VideoAnalyzer.screen_radius
    mapping_mode,      \* VideoAnalyzer.mapping_mode
    current_mapping_button,  \* VideoAnalyzer.current_mapping_button
    manual_buttons,    \* VideoAnalyzer.manual_buttons
    file,         \* button_mapping.json: None while it does not exist
    clicks,       \* number of handle_mapping_click calls made so far
    detects,      \* number of detect_screen calls made so far
    session_clicks,    \* accepted clicks since the last start_mapping_mode
    ret,          \* the value the last call returned (FALSE before any)
    arg_point,    \* the point given to the last call (None before any)
    calibration_points,     \* CoordinateMapper.calibration_points
    transformation_matrix,  \* CoordinateMapper.transformation_matrix
    raised,       \* the last CoordinateMapper call raised cv2.error
    prev_positions,    \* HandTracker.prev_positions (None: id not in the dict)
    gesture_calls,     \* number of detect_gesture calls made so far
    frame_counter,     \* MaiMaiTrainer.frame_counter
    calibrating,       \* MaiMaiTrainer.calibrating
    dev_enabled,       \* DEV_MODE["ENABLED"]
    trace,        \* what each update call so far did, oldest first
    pending       \* the check_button_hit calls the running update has yet to make

vars == <<angle, section, score, combo, max_combo, perfects, greats, goods,
          misses, op, timing, calls, notes, spawned, hits, positions,
          prev_notes, now, ticks, hit_calls, last_hit_time, last_dot_time,
          last_finger_positions, hit_stats, arg_id, arg_hand,
          last_finger_hand, accepted, screen_center, screen_radius,
          mapping_mode, current_mapping_button, manual_buttons, file, clicks,
          detects, session_clicks, ret, arg_point, calibration_points,
          transformation_matrix, raised, prev_positions, gesture_calls,
          frame_counter, calibrating, dev_enabled, trace, pending>>

sectorVars == <<angle, section>>
scoreVars == <<score, combo, max_combo, perfects, greats, goods, misses>>
scoreHist == <<timing, calls>>
noteVars == <<notes, spawned, hits, positions, prev_notes>>
hitVars == <<now, ticks, hit_calls, last_hit_time, last_dot_time,
             last_finger_positions, hit_stats, arg_id, arg_hand,
             last_finger_hand, accepted>>
screenVars == <<screen_center, screen_radius>>
mapVars == <<mapping_mode, current_mapping_button, manual_buttons, file,
             clicks, detects, session_clicks>>
calibVars == <<calibration_points, transformation_matrix, raised>>
gestureVars == <<prev_positions, gesture_calls>>
frameVars == <<frame_counter, calibrating, dev_enabled, trace, pending>>
trainerVars == <<hitVars, screenVars, mapVars, ret, arg_point, calibVars,
                 gestureVars, frameVars>>

----------------------------------------------------------------------------
(* Units *)

Deg(d) == 2 * d

----------------------------------------------------------------------------
(* main.py: MaiMaiTrainer.get_hit_section *)

SectionNames ==
    <<"TOP", "TOP_RIGHT", "RIGHT", "BOTTOM_RIGHT",
      "BOTTOM", "BOTTOM_LEFT", "LEFT", "TOP_LEFT">>

\* The list `sections` of (name, start_angle, end_angle), in half degrees.
sections ==
    << <<"TOP",          Deg(337) + 1, Deg(22) + 1>>,
       <<"TOP_RIGHT",    Deg(22) + 1,  Deg(67) + 1>>,
       <<"RIGHT",        Deg(67) + 1,  Deg(112) + 1>>,
       <<"BOTTOM_RIGHT", Deg(112) + 1, Deg(157) + 1>>,
       <<"BOTTOM",       Deg(157) + 1, Deg(202) + 1>>,
       <<"BOTTOM_LEFT",  Deg(202) + 1, Deg(247) + 1>>,
       <<"LEFT",         Deg(247) + 1, Deg(292) + 1>>,
       <<"TOP_LEFT",     Deg(292) + 1, Deg(337) + 1>> >>

\* The for loop over `sections` from entry i on, with its if / elif and the
\* default return after the loop.
RECURSIVE SectionScan(_, _)
SectionScan(adjusted_angle, i) ==
    IF i > Len(sections)
    THEN "TOP"
    ELSE LET section_name == sections[i][1]
             start_angle == sections[i][2]
             end_angle == sections[i][3]
         IN  IF start_angle <= adjusted_angle \/ adjusted_angle < end_angle
             THEN IF /\ section_name = "TOP"
                     /\ (\/ adjusted_angle >= Deg(337) + 1
                         \/ adjusted_angle < Deg(22) + 1)
                  THEN section_name
                  ELSE SectionScan(adjusted_angle, i + 1)
             ELSE IF start_angle <= adjusted_angle /\ adjusted_angle < end_angle
                  THEN section_name
                  ELSE SectionScan(adjusted_angle, i + 1)

get_hit_section(a) == SectionScan((a - Deg(90)) % Deg(360), 1)

\* A call of get_hit_section on the current argument.
\* NoteGenerator.region_angles: the angle, in degrees, of each region name.
region_angles ==
    [s \in {SectionNames[i] : i \in 1 .. Len(SectionNames)} |->
        CASE s = "TOP" -> 90
          [] s = "TOP_RIGHT" -> 45
          [] s = "RIGHT" -> 0
          [] s = "BOTTOM_RIGHT" -> 315
          [] s = "BOTTOM" -> 270
          [] s = "BOTTOM_LEFT" -> 225
          [] s = "LEFT" -> 180
          [] s = "TOP_LEFT" -> 135]

\* MaiMaiTrainer.region_to_angle for the eight region names.
region_to_angle(region_name) ==
    CASE region_name = "TOP" -> 270
      [] region_name = "TOP_RIGHT" -> 315
      [] region_name = "RIGHT" -> 0
      [] region_name = "BOTTOM_RIGHT" -> 45
      [] region_name = "BOTTOM" -> 90
      [] region_name = "BOTTOM_LEFT" -> 135
      [] region_name = "LEFT" -> 180
      [] region_name = "TOP_LEFT" -> 225

Classify ==
    /\ section = "NONE"
    /\ section' = get_hit_section(angle)
    /\ op' = "get_hit_section"
    /\ UNCHANGED <<angle, scoreVars, scoreHist, noteVars, trainerVars>>

\* The caller moves on to another angle in [0, 360).
NextAngle ==
    /\ section # "NONE"
    /\ angle' \in 0 .. (Deg(360) - 1)
    /\ section' = "NONE"
    /\ op' = "angle"
    /\ UNCHANGED <<scoreVars, scoreHist, noteVars, trainerVars>>

----------------------------------------------------------------------------
(* game/scoring.py: ScoreManager *)

MaxCalls == 5

TIMING_WINDOWS == [PERFECT |-> 50, GREAT |-> 100, GOOD |-> 150, BAD |-> 200]

\* Timing offsets handed to add_hit: both sides of every threshold.
Timings == {-5, 0, 50, 51, 100, 101, 150, 151, 200, 300}

ComboMax_assign(m, c) == c

ComboMax_stale(m, c) == m

\* max(self.max_combo, self.combo)
ComboMax(m, c) == IF m >= c THEN m ELSE c

add_hit_strict(t) ==
    /\ IF t < TIMING_WINDOWS.PERFECT
       THEN /\ score' = score + 100
            /\ perfects' = perfects + 1
            /\ combo' = combo + 1
            /\ UNCHANGED <<greats, goods, misses>>
       ELSE IF t < TIMING_WINDOWS.GREAT
       THEN /\ score' = score + 80
            /\ greats' = greats + 1
            /\ combo' = combo + 1
            /\ UNCHANGED <<perfects, goods, misses>>
       ELSE IF t < TIMING_WINDOWS.GOOD
       THEN /\ score' = score + 50
            /\ goods' = goods + 1
            /\ combo' = combo + 1
            /\ UNCHANGED <<perfects, greats, misses>>
       ELSE /\ misses' = misses + 1
            /\ combo' = 0
            /\ UNCHANGED <<score, perfects, greats, goods>>
    /\ max_combo' = ComboMax(max_combo, combo')

add_hit(t) ==
    /\ IF t <= TIMING_WINDOWS.PERFECT
       THEN /\ score' = score + 100
            /\ perfects' = perfects + 1
            /\ combo' = combo + 1
            /\ UNCHANGED <<greats, goods, misses>>
       ELSE IF t <= TIMING_WINDOWS.GREAT
       THEN /\ score' = score + 80
            /\ greats' = greats + 1
            /\ combo' = combo + 1
            /\ UNCHANGED <<perfects, goods, misses>>
       ELSE IF t <= TIMING_WINDOWS.GOOD
       THEN /\ score' = score + 50
            /\ goods' = goods + 1
            /\ combo' = combo + 1
            /\ UNCHANGED <<perfects, greats, misses>>
       ELSE /\ misses' = misses + 1
            /\ combo' = 0
            /\ UNCHANGED <<score, perfects, greats, goods>>
    /\ max_combo' = ComboMax(max_combo, combo')

add_miss_keeps_combo ==
    /\ misses' = misses + 1
    /\ UNCHANGED <<combo, score, max_combo, perfects, greats, goods>>

add_miss ==
    /\ misses' = misses + 1
    /\ combo' = 0
    /\ UNCHANGED <<score, max_combo, perfects, greats, goods>>

\* The value of a / b as Python computes it: an exact fraction, or the
\* ZeroDivisionError that b = 0 raises.
TrueDiv(a, b) ==
    IF b = 0
    THEN [raises |-> TRUE, num |-> 0, den |-> 0]
    ELSE [raises |-> FALSE, num |-> a, den |-> b]

\* q * k for a fraction q.
Times(q, k) == [q EXCEPT !.num = q.num * k]

get_accuracy_unguarded ==
    LET total_notes == perfects + greats + goods + misses
    IN  Times(TrueDiv(perfects + greats + goods, total_notes), 100)

get_accuracy ==
    LET total_notes == perfects + greats + goods + misses
    IN  IF total_notes = 0
        THEN [raises |-> FALSE, num |-> 0, den |-> 1]
        ELSE Times(TrueDiv(perfects + greats + goods, total_notes), 100)

\* A caller invokes add_hit(t).
AddHit ==
    /\ calls < MaxCalls
    /\ \E t \in Timings :
          /\ add_hit(t)
          /\ timing' = t
    /\ calls' = calls + 1
    /\ op' = "add_hit"
    /\ UNCHANGED <<sectorVars, noteVars, trainerVars>>

\* A caller invokes add_miss().
AddMiss ==
    /\ calls < MaxCalls
    /\ add_miss
    /\ timing' = 0
    /\ calls' = calls + 1
    /\ op' = "add_miss"
    /\ UNCHANGED <<sectorVars, noteVars, trainerVars>>

----------------------------------------------------------------------------
(* game/notes.py: Note and NoteManager *)

MaxNotes == 2

WINDOW_WIDTH == 1200

WINDOW_HEIGHT == 600

CIRCLE_RADIUS == 300

\* A length of p pixels, in half pixels.
Px(p) == 2 * p

\* NOTE_SPEED = 7.5 pixels.
NOTE_SPEED == Px(75) \div 10

NoteTypes == {"TAP"}

\* Angles handed to add_note, which stores them as given: one inside
\* [0, 360) and one beyond a full turn.
NoteAngles == {90, 540}

\* The lists of pixel positions handed to check_hits (zipped with as many
\* gestures): the points straight below (hit angle 90) and straight above
\* (hit angle 270) the centre (300, 300) of the play area.
PositionLists ==
    { << <<300, 400>> >>,
      << <<300, 200>>, <<300, 400>> >> }

\* math.degrees(math.atan2(dy, dx)) for the directions whose angle is a whole
\* number of degrees: along an axis or a diagonal.  atan2 returns a value in
\* (-180, 180].
Atan2Degrees(dy, dx) ==
    CASE dy = 0 /\ dx >= 0 -> 0
      [] dy = 0 /\ dx < 0 -> 180
      [] dx = 0 /\ dy > 0 -> 90
      [] dx = 0 /\ dy < 0 -> -90
      [] dy = dx /\ dx > 0 -> 45
      [] dy = dx /\ dx < 0 -> -135
      [] dy = -dx /\ dx > 0 -> -45
      [] dy = -dx /\ dx < 0 -> 135

\* Note.__init__
NewNote(id, note_type, note_angle, radius) ==
    [id |-> id, type |-> note_type, angle |-> note_angle, radius |-> radius,
     active |-> TRUE, hit |-> FALSE]

Note_update_nonpositive(note) ==
    IF note.active
    THEN LET r == note.radius - NOTE_SPEED
         IN  [note EXCEPT !.radius = r,
                          !.active = IF r <= 0 THEN FALSE ELSE note.active]
    ELSE note

\* Note.update
Note_update(note) ==
    IF note.active
    THEN LET r == note.radius - NOTE_SPEED
         IN  [note EXCEPT !.radius = r,
                          !.active = IF r < 0 THEN FALSE ELSE note.active]
    ELSE note

\* NoteManager.add_note: the note starts at CIRCLE_RADIUS * 1.5.
add_note(note_type, note_angle) ==
    LET radius == (Px(CIRCLE_RADIUS) * 3) \div 2
    IN  notes' = Append(notes, NewNote(spawned + 1, note_type, note_angle, radius))

\* NoteManager.update: every note of a copy of the list is updated and is
\* removed from the list when its radius is below 0.
NoteManager_update ==
    LET updated == [i \in 1 .. Len(notes) |-> Note_update(notes[i])]
    IN  notes' = SelectSeq(updated, LAMBDA n : ~(n.radius < 0))

\* The hit angle check_hits computes for a position.
HitAngle(pos) ==
    LET dx == pos[1] - (WINDOW_WIDTH \div 4)
        dy == pos[2] - (WINDOW_HEIGHT \div 2)
        hit_angle == Atan2Degrees(dy, dx)
    IN  IF hit_angle < 0 THEN hit_angle + 360 ELSE hit_angle

\* angle_diff of check_hits.
AngleDiff(hit_angle, note_angle) ==
    LET d == hit_angle - note_angle
        angle_diff == IF d < 0 THEN -d ELSE d
    IN  IF angle_diff > 180 THEN 360 - angle_diff ELSE angle_diff

InRadiusWindow_closed(radius) ==
    /\ Px(CIRCLE_RADIUS) * 6 <= radius * 10
    /\ radius * 10 <= Px(CIRCLE_RADIUS) * 14

\* The radius test of check_hits:
\* CIRCLE_RADIUS * 0.6 < note.radius < CIRCLE_RADIUS * 1.4.
InRadiusWindow(radius) ==
    /\ Px(CIRCLE_RADIUS) * 6 < radius * 10
    /\ radius * 10 < Px(CIRCLE_RADIUS) * 14

\* The condition under which check_hits takes `note` for the position pos.
Accepts(note, pos) ==
    /\ AngleDiff(HitAngle(pos), note.angle) < 60
    /\ InRadiusWindow(note.radius)

\* The inner loop of check_hits over zip(gestures, positions): whether some
\* pair takes the note (the loop breaks at the first that does).
TakenBy(note, ps) == \E k \in 1 .. Len(ps) : Accepts(note, ps[k])

check_hits_keeps(ps) ==
    /\ hits' = SelectSeq(notes, LAMBDA n : TakenBy(n, ps))
    /\ notes' = notes

\* NoteManager.check_hits: the outer loop runs over a copy of the whole
\* list; each note some pair takes is appended to hits and removed.
check_hits(ps) ==
    /\ hits' = SelectSeq(notes, LAMBDA n : TakenBy(n, ps))
    /\ notes' = SelectSeq(notes, LAMBDA n : ~TakenBy(n, ps))

\* A caller invokes add_note.
AddNote ==
    /\ spawned < MaxNotes
    /\ \E t \in NoteTypes, a \in NoteAngles : add_note(t, a)
    /\ spawned' = spawned + 1
    /\ hits' = <<>>
    /\ positions' = <<>>
    /\ prev_notes' = notes
    /\ op' = "add_note"
    /\ UNCHANGED <<sectorVars, scoreVars, scoreHist, trainerVars>>

\* A caller invokes NoteManager.update.  Neither it nor any caller in the
\* repository calls ScoreManager.add_miss.
Update ==
    /\ NoteManager_update
    /\ hits' = <<>>
    /\ positions' = <<>>
    /\ prev_notes' = notes
    /\ op' = "update"
    /\ UNCHANGED <<spawned, sectorVars, scoreVars, scoreHist, trainerVars>>

\* A caller invokes check_hits with as many gestures as positions.
CheckHits ==
    /\ \E ps \in PositionLists :
          /\ check_hits(ps)
          /\ positions' = ps
    /\ prev_notes' = notes
    /\ op' = "check_hits"
    /\ UNCHANGED <<spawned, sectorVars, scoreVars, scoreHist, trainerVars>>

----------------------------------------------------------------------------
(* Python values *)

\* None.  A point (x, y) is <<x, y>> and a number n that may be None is
\* <<n>>, so that every optional value is a sequence.
None == <<>>

Some(v) == <<v>>

Val(o) == o[1]

\* bool(v) of a number that may be None: None and 0 are false.
TruthyNumber(o) == o # None /\ Val(o) # 0

\* bool(v) of a tuple that may be None: None is false, (x, y) is true.
TruthyTuple(o) == o # None

----------------------------------------------------------------------------
(* vision/video_analyzer.py: button mapping, its file, and detect_screen *)

MaxClicks == 8

MaxDetects == 2

\* list(self.manual_buttons.keys()): the keys in insertion order.
button_keys == SectionNames

ButtonNames == {button_keys[i] : i \in 1 .. Len(button_keys)}

\* index of a key in button_keys (1-based here, 0-based in the code).
KeyIndex(key) == CHOOSE i \in 1 .. Len(button_keys) : button_keys[i] = key

\* Window pixels a mapping click can name; all on one horizontal line, so
\* that the distances detect_screen averages are whole numbers of eighths.
ClickPoints == {<<100, 240>>, <<300, 240>>}

\* What a frame shows detect_screen's contour search: no frame at all
\* (<<"none">>), no qualifying contour (<<"no_circle">>), or a circular
\* contour and the minEnclosingCircle centre and radius of it.  min_radius
\* is int(480 * 0.3) = 144 and max_radius is int(480 * 0.45) = 216; the
\* enclosing circle is no smaller than the contour's area radius.
Frames == {<<"none">>, <<"no_circle">>, <<"circle", <<320, 240>>, 200>>}

\* A JSON object {"x": x, "y": y} (null is None).
JsonPoint(p) == Some([x |-> p[1], y |-> p[2]])

\* The document save_button_mapping writes for the given state.
MappingData(buttons, center, radius) ==
    [buttons |-> [k \in ButtonNames |->
                     IF TruthyTuple(buttons[k]) THEN JsonPoint(buttons[k])
                     ELSE None],
     screen |-> IF TruthyTuple(center) /\ TruthyNumber(radius)
                THEN Some([center |-> IF TruthyTuple(center)
                                      THEN JsonPoint(center) ELSE None,
                           radius |-> radius])
                ELSE None]

\* The state of a VideoAnalyzer before load_button_mapping runs.
FreshAnalyzer ==
    [manual_buttons |-> [k \in ButtonNames |-> None],
     screen_center |-> None,
     screen_radius |-> None]

\* A button entry of the document as `if pos:` and pos['x'], pos['y'] see
\* it: null is skipped, an object with x and y is read, an object lacking
\* either raises KeyError.
ReadablePoint(pos) ==
    /\ pos # None
    /\ "x" \in DOMAIN Val(pos)
    /\ "y" \in DOMAIN Val(pos)

\* The loop over mapping_data['buttons'].items(), from the i-th key on, with
\* `buttons` the manual_buttons so far: the manual_buttons it leaves and
\* whether it ran to the end; an entry that raises ends it.
RECURSIVE LoadButtons(_, _, _)
LoadButtons(entries, i, buttons) ==
    IF i > Len(button_keys) THEN <<buttons, TRUE>>
    ELSE LET button == button_keys[i]
             pos == entries[button]
         IN  IF pos = None THEN LoadButtons(entries, i + 1, buttons)
             ELSE IF ReadablePoint(pos)
             THEN LoadButtons(entries, i + 1,
                              [buttons EXCEPT
                                  ![button] = <<Val(pos).x, Val(pos).y>>])
             ELSE <<buttons, FALSE>>

\* load_button_mapping on a fresh VideoAnalyzer: f is None when the file does
\* not exist, else Some(document); a document whose content json.load
\* rejects has the one field `invalid`.  Every exception is caught by the
\* except clause, which keeps what was assigned before it and makes the call
\* return False: the buttons are restored before the screen entry is read,
\* and screen_center is assigned before the radius is read.
load_button_mapping(f) ==
    IF f = None
    THEN [manual_buttons |-> FreshAnalyzer.manual_buttons,
          screen_center |-> None, screen_radius |-> None, returns |-> FALSE]
    ELSE
    LET mapping_data == Val(f)
        fresh == FreshAnalyzer.manual_buttons
    IN
    IF "buttons" \notin DOMAIN mapping_data
    THEN [manual_buttons |-> fresh,
          screen_center |-> None, screen_radius |-> None, returns |-> FALSE]
    ELSE
    LET loaded == LoadButtons(mapping_data.buttons, 1, fresh)
        buttons == loaded[1]
    IN
    IF ~loaded[2] \/ "screen" \notin DOMAIN mapping_data
    THEN [manual_buttons |-> buttons,
          screen_center |-> None, screen_radius |-> None, returns |-> FALSE]
    ELSE
    LET screen == mapping_data.screen
    IN
    IF screen = None
    THEN [manual_buttons |-> buttons,
          screen_center |-> None, screen_radius |-> None, returns |-> TRUE]
    ELSE IF ~("center" \in DOMAIN Val(screen)
                 /\ ReadablePoint(Val(screen).center))
    THEN [manual_buttons |-> buttons,
          screen_center |-> None, screen_radius |-> None, returns |-> FALSE]
    ELSE
    LET center == <<Val(Val(screen).center).x, Val(Val(screen).center).y>>
    IN
    IF "radius" \notin DOMAIN Val(screen)
    THEN [manual_buttons |-> buttons,
          screen_center |-> center, screen_radius |-> None, returns |-> FALSE]
    ELSE [manual_buttons |-> buttons,
          screen_center |-> center, screen_radius |-> Val(screen).radius,
          returns |-> TRUE]

\* The mapping files a run can start from: no file, or the file of an earlier
\* run that stopped mapping after two clicks.
InitialFiles ==
    {None,
     Some(MappingData([k \in ButtonNames |->
                          IF k \in {"TOP", "TOP_RIGHT"} THEN <<100, 240>>
                          ELSE None],
                      None, None))}

\* save_button_mapping() once manual_buttons is `buttons`; the write succeeds.
save_button_mapping(buttons) ==
    file' = Some(MappingData(buttons, screen_center, screen_radius))

\* start_mapping_mode()
start_mapping_mode ==
    /\ mapping_mode' = TRUE
    /\ current_mapping_button' = Some(button_keys[1])
    /\ UNCHANGED <<manual_buttons, file>>

\* stop_mapping_mode()
stop_mapping_mode ==
    /\ mapping_mode' = FALSE
    /\ current_mapping_button' = None
    /\ save_button_mapping(manual_buttons)
    /\ UNCHANGED manual_buttons

NextKey_first(key) == Some(button_keys[1])

NextKey_unbound(key) ==
    LET later == {j \in (KeyIndex(key) + 1) .. Len(button_keys) :
                     manual_buttons[button_keys[j]] = None}
    IN  IF later = {} THEN None
        ELSE Some(button_keys[CHOOSE j \in later : \A m \in later : j <= m])

\* button_keys[current_index + 1] while there is one, else None.
NextKey(key) ==
    IF KeyIndex(key) < Len(button_keys)
    THEN Some(button_keys[KeyIndex(key) + 1])
    ELSE None

\* handle_mapping_click(x, y)
handle_mapping_click(x, y) ==
    IF ~mapping_mode \/ current_mapping_button = None
    THEN /\ ret' = FALSE
         /\ UNCHANGED <<mapping_mode, current_mapping_button, manual_buttons,
                        file>>
    ELSE
    LET key == Val(current_mapping_button)
        bound == [manual_buttons EXCEPT ![key] = <<x, y>>]
    IN  /\ manual_buttons' = bound
        /\ ret' = TRUE
        /\ IF NextKey(key) # None
           THEN /\ current_mapping_button' = NextKey(key)
                /\ UNCHANGED <<mapping_mode, file>>
           ELSE /\ mapping_mode' = FALSE
                /\ current_mapping_button' = None
                /\ save_button_mapping(bound)

RECURSIVE SumOver(_, _, _)
\* sum(f(k) for k in keys[i:]) over the key list.
SumOver(f, keys, i) ==
    IF i > Len(keys) THEN 0 ELSE f[keys[i]] + SumOver(f, keys, i + 1)

Abs(n) == IF n < 0 THEN -n ELSE n

\* The manual strategy of detect_screen for buttons on one horizontal line:
\* the centre is (int(mean x), int(mean y)) and the radius int(mean distance
\* to the unrounded centre), the distance of a button being |x - mean x|.
ManualScreen(buttons) ==
    LET n == Len(button_keys)
        sx == SumOver([k \in ButtonNames |-> buttons[k][1]], button_keys, 1)
        sy == SumOver([k \in ButtonNames |-> buttons[k][2]], button_keys, 1)
        sd == SumOver([k \in ButtonNames |-> Abs(n * buttons[k][1] - sx)],
                      button_keys, 1)
    IN  <<<<sx \div n, sy \div n>>, Some(sd \div (n * n))>>

detect_screen_forgets(frame) ==
    IF frame[1] = "none"
    THEN /\ ret' = FALSE
         /\ UNCHANGED screenVars
    ELSE IF \A k \in ButtonNames : manual_buttons[k] # None
    THEN /\ screen_center' = ManualScreen(manual_buttons)[1]
         /\ screen_radius' = ManualScreen(manual_buttons)[2]
         /\ ret' = TRUE
    ELSE IF frame[1] = "circle"
    THEN /\ screen_center' = frame[2]
         /\ screen_radius' = Some(frame[3])
         /\ ret' = TRUE
    ELSE /\ ret' = FALSE
         /\ screen_center' = None
         /\ screen_radius' = None

\* detect_screen(frame): the value returned and the geometry left behind.
detect_screen(frame) ==
    IF frame[1] = "none"
    THEN /\ ret' = FALSE
         /\ UNCHANGED screenVars
    ELSE IF \A k \in ButtonNames : manual_buttons[k] # None
    THEN /\ screen_center' = ManualScreen(manual_buttons)[1]
         /\ screen_radius' = ManualScreen(manual_buttons)[2]
         /\ ret' = TRUE
    ELSE IF frame[1] = "circle"
    THEN /\ screen_center' = frame[2]
         /\ screen_radius' = Some(frame[3])
         /\ ret' = TRUE
    ELSE /\ ret' = FALSE
         /\ UNCHANGED screenVars

\* The M key or the "Map Buttons" button while mapping mode is off.
StartMappingMode ==
    /\ ~mapping_mode
    /\ start_mapping_mode
    /\ session_clicks' = 0
    /\ op' = "start_mapping_mode"
    /\ UNCHANGED <<sectorVars, scoreVars, scoreHist, noteVars, calibVars,
                   gestureVars, frameVars, hitVars,
                   screenVars, ret, arg_point, clicks, detects>>

\* The M key or the "Map Buttons" button while mapping mode is on.
StopMappingMode ==
    /\ mapping_mode
    /\ stop_mapping_mode
    /\ op' = "stop_mapping_mode"
    /\ UNCHANGED <<sectorVars, scoreVars, scoreHist, noteVars, calibVars,
                   gestureVars, frameVars, hitVars,
                   screenVars, ret, arg_point, clicks, detects,
                   session_clicks>>

\* A left click released in the video area while mapping mode is on.
HandleMappingClick ==
    /\ mapping_mode
    /\ clicks < MaxClicks
    /\ \E p \in ClickPoints :
          /\ handle_mapping_click(p[1], p[2])
          /\ arg_point' = p
    /\ session_clicks' = IF ret' THEN session_clicks + 1 ELSE session_clicks
    /\ clicks' = clicks + 1
    /\ op' = "handle_mapping_click"
    /\ UNCHANGED <<sectorVars, scoreVars, scoreHist, noteVars, calibVars,
                   gestureVars, frameVars, hitVars,
                   screenVars, detects>>

\* analyze_frame runs detect_screen on a frame.
DetectScreen ==
    /\ detects < MaxDetects
    /\ \E frame \in Frames : detect_screen(frame)
    /\ detects' = detects + 1
    /\ op' = "detect_screen"
    /\ UNCHANGED <<sectorVars, scoreVars, scoreHist, noteVars, calibVars,
                   gestureVars, frameVars, hitVars,
                   mapping_mode, current_mapping_button, manual_buttons, file,
                   arg_point, clicks, session_clicks>>

\* The mapping files hit resolution starts beside: the file an earlier run
\* saved after binding the eight buttons alternately to the two click points
\* and detecting the screen from them (centre (200, 240), radius 100), or the
\* file it saved with no button bound after detecting a circle of centre
\* (320, 240) and radius 170 in the frame.
FullButtons ==
    [k \in ButtonNames |->
        IF KeyIndex(k) % 2 = 1 THEN <<100, 240>> ELSE <<300, 240>>]

HitFiles ==
    {Some(MappingData(FullButtons, ManualScreen(FullButtons)[1],
                      ManualScreen(FullButtons)[2])),
     Some(MappingData(FreshAnalyzer.manual_buttons, <<320, 240>>, Some(170)))}

----------------------------------------------------------------------------
(* main.py: MaiMaiTrainer.check_button_hit and add_hit_dot *)

MaxTicks == 3

MaxHitCalls == 4

\* time.time() * 1000 when the trainer is constructed: far beyond any
\* cooldown counted from last_hit_time = 0.
StartTime == 1000

hit_cooldown == 50

min_movement_threshold == 10

dot_cooldown == 100

\* Milliseconds that pass between two calls.
TickSteps == {10, 40}

\* The landmark indices update passes as finger_id: thumb and index tip.
FingerIds == {4, 8}

\* Indices into hand_results.multi_hand_landmarks (max_num_hands = 2).
Hands == {0, 1}

\* Fingertip pixels handed to check_button_hit.  Around the screen centre
\* (200, 240) with radius 100: the centre itself and two points of the ring
\* 10 pixels apart.  Around the centre (320, 240) with radius 170: the point
\* (200, 240) of the ring and a point at distance 119 = 0.7 * 170.
FingerPoints == {<<200, 240>>, <<275, 240>>, <<285, 240>>, <<439, 240>>}

Sq(n) == n * n

\* dx*dx + dy*dy: the square of the distance math.sqrt returns.
DistanceSq(p, q) == Sq(p[1] - q[1]) + Sq(p[2] - q[2])

\* The radii r up to 480 for which the double 0.7 * r is below 7r/10 although
\* 7r/10 is a whole number (0.7 * 90 = 62.99999999999999); 0.9 * r is never
\* above 9r/10 there.
Product07RoundsDown == {90, 170, 180, 330, 340, 350, 360}

\* 0.7 * screen_radius < distance_from_center < 0.9 * screen_radius, for a
\* whole radius r and a distance whose square is the whole number dsq.
InHitZone(r, dsq) ==
    /\ \/ 49 * Sq(r) < 100 * dsq
       \/ 49 * Sq(r) = 100 * dsq /\ r \in Product07RoundsDown
    /\ 100 * dsq < 81 * Sq(r)

\* movement > self.min_movement_threshold, for a movement whose square is msq.
EnoughMovement(msq) == msq > Sq(min_movement_threshold)

InCooldown_off(current_time) == FALSE

InCooldown_inclusive(current_time) ==
    current_time - last_hit_time <= hit_cooldown

\* current_time - self.last_hit_time < self.hit_cooldown
InCooldown(current_time) == current_time - last_hit_time < hit_cooldown

SeedPosition_dropped(finger_x, finger_y) == None

\* The position the first sighting of a finger_id stores.
SeedPosition(finger_x, finger_y) == <<finger_x, finger_y>>

\* math.degrees(math.atan2(center_dy, center_dx)) % 360, in half degrees.
ButtonHitAngle(center_dy, center_dx) ==
    Deg(Atan2Degrees(center_dy, center_dx) % 360)

\* add_hit_dot(angle) at time current_time: the hit_stats and last_dot_time it
\* leaves (nothing changes inside the dot cooldown).
add_hit_dot(a, current_time, stats, dot_time) ==
    IF current_time - dot_time < dot_cooldown
    THEN <<stats, dot_time>>
    ELSE LET s == get_hit_section(a)
         IN  <<[stats EXCEPT ![s] = stats[s] + 1], current_time>>

\* check_button_hit(finger_x, finger_y, finger_id) at time `now`; both
\* time.time() reads of the call give the same instant.
check_button_hit(finger_x, finger_y, finger_id) ==
    LET current_time == now
        last_pos == last_finger_positions[finger_id]
    IN
    IF InCooldown(current_time)
    THEN /\ ret' = FALSE
         /\ UNCHANGED <<last_finger_positions, last_hit_time, last_dot_time,
                        hit_stats>>
    ELSE IF last_pos = None
    THEN /\ last_finger_positions' =
                [last_finger_positions EXCEPT
                    ![finger_id] = SeedPosition(finger_x, finger_y)]
         /\ ret' = FALSE
         /\ UNCHANGED <<last_hit_time, last_dot_time, hit_stats>>
    ELSE
    LET movement_sq == DistanceSq(<<finger_x, finger_y>>, last_pos)
    IN
    /\ last_finger_positions' =
           [last_finger_positions EXCEPT ![finger_id] = <<finger_x, finger_y>>]
    /\ IF ~TruthyTuple(screen_center) \/ ~TruthyNumber(screen_radius)
       THEN /\ ret' = FALSE
            /\ UNCHANGED <<last_hit_time, last_dot_time, hit_stats>>
       ELSE
       LET center_dx == finger_x - screen_center[1]
           center_dy == finger_y - screen_center[2]
           distance_sq == Sq(center_dx) + Sq(center_dy)
       IN
       IF /\ InHitZone(Val(screen_radius), distance_sq)
          /\ EnoughMovement(movement_sq)
       THEN LET a == ButtonHitAngle(center_dy, center_dx)
                dot == add_hit_dot(a, current_time, hit_stats, last_dot_time)
                s == get_hit_section(a)
            IN  /\ last_dot_time' = dot[2]
                /\ last_hit_time' = current_time
                /\ hit_stats' = [dot[1] EXCEPT ![s] = dot[1][s] + 1]
                /\ ret' = TRUE
       ELSE /\ ret' = FALSE
            /\ UNCHANGED <<last_hit_time, last_dot_time, hit_stats>>

\* Wall-clock time passes.
Tick ==
    /\ ticks < MaxTicks
    /\ \E d \in TickSteps : now' = now + d
    /\ ticks' = ticks + 1
    /\ op' = "tick"
    /\ UNCHANGED <<sectorVars, scoreVars, scoreHist, noteVars, calibVars,
                   gestureVars, frameVars, screenVars,
                   mapVars, last_finger_positions, last_hit_time,
                   last_dot_time, hit_stats, ret, arg_point, arg_id, arg_hand,
                   last_finger_hand, hit_calls, accepted>>

\* MaiMaiTrainer.update, on a frame whose analysis reports a screen centre
\* and radius, hands the thumb or index tip of one of the visible hands to
\* check_button_hit, naming it by its landmark index alone.
CheckButtonHit ==
    /\ hit_calls < MaxHitCalls
    /\ TruthyTuple(screen_center) /\ TruthyNumber(screen_radius)
    /\ \E hand \in Hands, finger_id \in FingerIds, p \in FingerPoints :
          /\ check_button_hit(p[1], p[2], finger_id)
          /\ arg_point' = p
          /\ arg_id' = finger_id
          /\ arg_hand' = hand
          /\ last_finger_hand' =
                 IF ~InCooldown(now)
                 THEN [last_finger_hand EXCEPT ![finger_id] = Some(hand)]
                 ELSE last_finger_hand
    /\ accepted' = IF ret' THEN accepted + 1 ELSE accepted
    /\ hit_calls' = hit_calls + 1
    /\ op' = "check_button_hit"
    /\ UNCHANGED <<sectorVars, scoreVars, scoreHist, noteVars, calibVars,
                   gestureVars, frameVars, screenVars,
                   mapVars, now, ticks>>

----------------------------------------------------------------------------
(* CoordinateMapper: utils/coordinate_mapper.py *)

MaxPairs == 5

\* WEBCAM_SETTINGS["WIDTH"] and WEBCAM_SETTINGS["HEIGHT"]
WEBCAM_WIDTH == 640

WEBCAM_HEIGHT == 480

\* The (webcam_point, screen_point) pairs a calibration click can add.
CalibrationPairs ==
    {<< <<0, 0>>, <<0, 0>> >>, << <<640, 480>>, <<1200, 600>> >>}

\* The webcam points map_coordinates is given.
WebcamPoints == {<<320, 240>>, <<639, 479>>}

\* cv2.getPerspectiveTransform(src, dst) computes a matrix from exactly four
\* point pairs and fails its argument assertion, raising cv2.error, for any
\* other number; the matrix is represented by the pairs it is computed from.
getPerspectiveTransform(points) ==
    IF Len(points) = 4 THEN Some(points) ELSE None

\* add_calibration_point(webcam_point, screen_point)
add_calibration_point(webcam_point, screen_point) ==
    /\ calibration_points' =
           Append(calibration_points, <<webcam_point, screen_point>>)
    /\ UNCHANGED transformation_matrix

calculate_transformation_min3 ==
    IF Len(calibration_points) < 3
    THEN /\ ret' = FALSE
         /\ raised' = FALSE
         /\ UNCHANGED <<calibration_points, transformation_matrix>>
    ELSE IF getPerspectiveTransform(calibration_points) = None
    THEN /\ raised' = TRUE
         /\ UNCHANGED <<calibration_points, transformation_matrix, ret>>
    ELSE /\ transformation_matrix' =
                getPerspectiveTransform(calibration_points)
         /\ ret' = TRUE
         /\ raised' = FALSE
         /\ UNCHANGED calibration_points

\* calculate_transformation(): the call that raises assigns nothing and
\* returns nothing.
calculate_transformation ==
    IF Len(calibration_points) < 4
    THEN /\ ret' = FALSE
         /\ raised' = FALSE
         /\ UNCHANGED <<calibration_points, transformation_matrix>>
    ELSE IF getPerspectiveTransform(calibration_points) = None
    THEN /\ raised' = TRUE
         /\ UNCHANGED <<calibration_points, transformation_matrix, ret>>
    ELSE /\ transformation_matrix' =
                getPerspectiveTransform(calibration_points)
         /\ ret' = TRUE
         /\ raised' = FALSE
         /\ UNCHANGED calibration_points

\* The value map_coordinates returns without a matrix: int() of the scaled
\* coordinates.
LinearScaling(webcam_point) ==
    <<(webcam_point[1] * WINDOW_WIDTH) \div WEBCAM_WIDTH,
      (webcam_point[2] * WINDOW_HEIGHT) \div WEBCAM_HEIGHT>>

\* map_coordinates(webcam_point); the perspective image of a point is
\* represented by the matrix and the point it is computed from.
map_coordinates(webcam_point) ==
    IF transformation_matrix = None
    THEN LinearScaling(webcam_point)
    ELSE <<"perspectiveTransform", Val(transformation_matrix), webcam_point>>

\* is_calibrated()
is_calibrated == transformation_matrix # None

AddCalibrationPoint ==
    /\ Len(calibration_points) < MaxPairs
    /\ \E pair \in CalibrationPairs : add_calibration_point(pair[1], pair[2])
    /\ raised' = FALSE
    /\ op' = "add_calibration_point"
    /\ UNCHANGED <<sectorVars, scoreVars, scoreHist, noteVars, hitVars,
                   screenVars, mapVars, gestureVars, frameVars, ret, arg_point>>

CalculateTransformation ==
    /\ calculate_transformation
    /\ op' = "calculate_transformation"
    /\ UNCHANGED <<sectorVars, scoreVars, scoreHist, noteVars, hitVars,
                   screenVars, mapVars, gestureVars, frameVars, arg_point>>

MapCoordinates ==
    /\ \E webcam_point \in WebcamPoints :
          /\ ret' = map_coordinates(webcam_point)
          /\ arg_point' = webcam_point
    /\ raised' = FALSE
    /\ op' = "map_coordinates"
    /\ UNCHANGED <<sectorVars, scoreVars, scoreHist, noteVars, hitVars,
                   screenVars, mapVars, gestureVars, frameVars,
                   calibration_points, transformation_matrix>>

----------------------------------------------------------------------------
(* HandTracker.detect_gesture: vision/hand_tracker.py *)

MaxGestureCalls == 3

slide_threshold == 30

\* The ids get_finger_positions builds for the fingertips of one hand.
GestureIds == {"hand0_finger4", "hand0_finger8"}

\* Fingertip positions (x, y, z): x and y in pixels on the corners of a
\* square of side slide_threshold, z in sixteenths of the normalised depth.
GesturePositions ==
    {<<x, y, z>> : x \in {0, slide_threshold}, y \in {0, slide_threshold},
                   z \in 0 .. 2}

\* abs(dz) > self.tap_threshold for dz in sixteenths: tap_threshold is the
\* double 0.1, and no multiple of 1/16 lies between 1/10 and that double.
ExceedsTapThreshold(dz) == 10 * Abs(dz) > 16

\* movement > self.slide_threshold for the squared movement msq: np.sqrt is
\* exact on 900 and monotone.
ExceedsSlideThreshold(msq) == msq > Sq(slide_threshold)

detect_gesture_tap_first(finger_pos, finger_id) ==
    IF prev_positions[finger_id] = None
    THEN /\ prev_positions' = [prev_positions EXCEPT ![finger_id] = finger_pos]
         /\ ret' = None
    ELSE LET prev_pos == prev_positions[finger_id]
             dx == finger_pos[1] - prev_pos[1]
             dy == finger_pos[2] - prev_pos[2]
             dz == finger_pos[3] - prev_pos[3]
         IN  /\ prev_positions' =
                    [prev_positions EXCEPT ![finger_id] = finger_pos]
             /\ ret' = IF ExceedsTapThreshold(dz)
                       THEN <<"TAP", None>>
                       ELSE IF ExceedsSlideThreshold(dx * dx + dy * dy)
                       THEN <<"SLIDE", Atan2Degrees(dy, dx)>>
                       ELSE None

\* detect_gesture(finger_pos, finger_id)
detect_gesture(finger_pos, finger_id) ==
    IF prev_positions[finger_id] = None
    THEN /\ prev_positions' = [prev_positions EXCEPT ![finger_id] = finger_pos]
         /\ ret' = None
    ELSE LET prev_pos == prev_positions[finger_id]
             dx == finger_pos[1] - prev_pos[1]
             dy == finger_pos[2] - prev_pos[2]
             dz == finger_pos[3] - prev_pos[3]
         IN  /\ prev_positions' =
                    [prev_positions EXCEPT ![finger_id] = finger_pos]
             /\ ret' = IF ExceedsSlideThreshold(dx * dx + dy * dy)
                       THEN <<"SLIDE", Atan2Degrees(dy, dx)>>
                       ELSE IF ExceedsTapThreshold(dz)
                       THEN <<"TAP", None>>
                       ELSE None

DetectGesture ==
    /\ gesture_calls < MaxGestureCalls
    /\ \E finger_id \in GestureIds, finger_pos \in GesturePositions :
          /\ detect_gesture(finger_pos, finger_id)
          /\ arg_id' = finger_id
          /\ arg_point' = finger_pos
    /\ gesture_calls' = gesture_calls + 1
    /\ op' = "detect_gesture"
    /\ UNCHANGED <<sectorVars, scoreVars, scoreHist, noteVars, screenVars,
                   mapVars, calibVars, frameVars, now, ticks, hit_calls,
                   last_hit_time, last_dot_time, last_finger_positions,
                   hit_stats, arg_hand, last_finger_hand, accepted>>

----------------------------------------------------------------------------
(* VideoAnalyzer.__init__ beside an arbitrary mapping file *)

\* The entries a document can hold for a sector: null, a point, or an object
\* without y.
ButtonEntries == {None, JsonPoint(<<100, 240>>), Some([x |-> 100])}

\* The screen entries a document can hold: null, a geometry, a geometry
\* without radius, one without centre, and one whose centre is null.
ScreenEntries ==
    {None,
     Some([center |-> JsonPoint(<<320, 240>>), radius |-> Some(200)]),
     Some([center |-> JsonPoint(<<320, 240>>)]),
     Some([radius |-> Some(200)]),
     Some([center |-> None, radius |-> Some(200)])}

\* The buttons object with the given entries for the first two sectors and
\* null for the rest.
ButtonsObject(top, top_right) ==
    [k \in ButtonNames |->
        IF k = "TOP" THEN top ELSE IF k = "TOP_RIGHT" THEN top_right ELSE None]

\* The mapping files a VideoAnalyzer can be constructed beside: none, one
\* that is not JSON, and documents with or without the buttons and screen
\* entries.
LoadFiles ==
    {None, Some([invalid |-> TRUE])}
        \cup {Some([buttons |-> ButtonsObject(t, r), screen |-> s]) :
                 t \in ButtonEntries, r \in ButtonEntries, s \in ScreenEntries}
        \cup {Some([buttons |-> ButtonsObject(t, r)]) :
                 t \in ButtonEntries, r \in ButtonEntries}
        \cup {Some([screen |-> s]) : s \in ScreenEntries}

\* The load_button_mapping() call that ends VideoAnalyzer.__init__.
LoadButtonMapping ==
    /\ op = "init"
    /\ manual_buttons' = load_button_mapping(file).manual_buttons
    /\ screen_center' = load_button_mapping(file).screen_center
    /\ screen_radius' = load_button_mapping(file).screen_radius
    /\ ret' = load_button_mapping(file).returns
    /\ op' = "load_button_mapping"
    /\ UNCHANGED <<sectorVars, scoreVars, scoreHist, noteVars, hitVars,
                   calibVars, gestureVars, frameVars, arg_point, mapping_mode,
                   current_mapping_button, file, clicks, detects,
                   session_clicks>>

----------------------------------------------------------------------------
(* The frame loop: MaiMaiTrainer.update and VideoAnalyzer.analyze_frame *)

MaxUpdates == 4

skip_frames == 2

\* What hands.process finds in a frame: a list of hands, each the pixel
\* positions of its thumb tip (landmark 4) and index fingertip (landmark 8).
FrameHands ==
    {<<>>,
     << << <<200, 240>>, <<285, 240>> >> >>,
     << << <<285, 240>>, <<200, 240>> >> >>}

\* The check_button_hit calls update makes for the hands of one frame, in
\* order: for each hand, landmark 4 and then landmark 8.
HitCalls(hands) ==
    [k \in 1 .. 2 * Len(hands) |->
        LET h == (k + 1) \div 2
            tip == IF k % 2 = 1 THEN 1 ELSE 2
        IN  <<hands[h][tip][1], hands[h][tip][2],
              IF tip = 1 THEN 4 ELSE 8, h - 1>>]

\* dev_mode.toggle_dev_mode() followed by calibrating = not DEV_MODE["ENABLED"]:
\* enabling fails, and leaves the flag alone, when the video cannot be opened.
toggle_dev_mode(opened) ==
    /\ dev_enabled' = IF dev_enabled THEN FALSE ELSE opened
    /\ calibrating' = ~dev_enabled'

\* analyze_frame(frame) for a frame that is not None: what it does to the
\* analyzer.  detect_buttons and the drawing write only button_positions and
\* the output frame, which nothing modelled here reads.
analyze_frame(frame) == detect_screen(frame)

\* The results analyze_frame returns once detect_screen has acted: None
\* when detection failed and some sector is unbound.
analyze_frame_results ==
    IF ret' \/ \A k \in ButtonNames : manual_buttons[k] # None
    THEN Some([screen_center |-> screen_center',
               screen_radius |-> screen_radius'])
    ELSE None

\* update(): the part of the tick up to the check_button_hit calls, which
\* are left in `pending`.  update_hit_dots only drops expired entries of
\* hit_dots, a list nothing modelled here reads.
update ==
    IF calibrating
    THEN /\ trace' = Append(trace, "calibrating")
         /\ UNCHANGED <<frame_counter, pending, screenVars, ret>>
    ELSE IF ~dev_enabled
    THEN /\ trace' = Append(trace, "dots_only")
         /\ UNCHANGED <<frame_counter, pending, screenVars, ret>>
    ELSE
    /\ frame_counter' = frame_counter + 1
    /\ IF (frame_counter + 1) % skip_frames # 0
       THEN /\ trace' = Append(trace, "skipped")
            /\ UNCHANGED <<pending, screenVars, ret>>
       ELSE \E frame \in Frames :
               IF frame[1] = "none"
               THEN /\ trace' = Append(trace, "no_frame")
                    /\ UNCHANGED <<pending, screenVars, ret>>
               ELSE /\ analyze_frame(frame)
                    /\ IF /\ analyze_frame_results # None
                          /\ TruthyTuple(
                                 Val(analyze_frame_results).screen_center)
                          /\ TruthyNumber(
                                 Val(analyze_frame_results).screen_radius)
                       THEN /\ trace' = Append(trace, "hit_detection")
                            /\ \E hands \in FrameHands :
                                  pending' = HitCalls(hands)
                       ELSE /\ trace' = Append(trace, "no_results")
                            /\ pending' = <<>>

ToggleDevMode ==
    /\ pending = <<>>
    /\ \E opened \in BOOLEAN : toggle_dev_mode(opened)
    /\ op' = "toggle_dev_mode"
    /\ UNCHANGED <<sectorVars, scoreVars, scoreHist, noteVars, hitVars,
                   screenVars, mapVars, calibVars, gestureVars, ret, arg_point,
                   frame_counter, trace, pending>>

UpdateCall ==
    /\ pending = <<>>
    /\ Len(trace) < MaxUpdates
    /\ update
    /\ op' = "update"
    /\ UNCHANGED <<sectorVars, scoreVars, scoreHist, noteVars, hitVars,
                   mapVars, calibVars, gestureVars, arg_point, calibrating,
                   dev_enabled>>

\* The next check_button_hit call of the running update.
UpdateCheckButtonHit ==
    /\ pending # <<>>
    /\ LET call == Head(pending)
       IN  /\ check_button_hit(call[1], call[2], call[3])
           /\ arg_point' = <<call[1], call[2]>>
           /\ arg_id' = call[3]
           /\ arg_hand' = call[4]
           /\ last_finger_hand' =
                  IF ~InCooldown(now)
                  THEN [last_finger_hand EXCEPT ![call[3]] = Some(call[4])]
                  ELSE last_finger_hand
    /\ accepted' = IF ret' THEN accepted + 1 ELSE accepted
    /\ hit_calls' = hit_calls + 1
    /\ pending' = Tail(pending)
    /\ op' = "check_button_hit"
    /\ UNCHANGED <<sectorVars, scoreVars, scoreHist, noteVars, screenVars,
                   mapVars, calibVars, gestureVars, now, ticks, frame_counter,
                   calibrating, dev_enabled, trace>>

\* Wall-clock time passes between two update calls.
FrameTick ==
    /\ pending = <<>>
    /\ Tick

----------------------------------------------------------------------------
(* Initial states and specifications *)

InitScore ==
    /\ score = 0
    /\ combo = 0
    /\ max_combo = 0
    /\ perfects = 0
    /\ greats = 0
    /\ goods = 0
    /\ misses = 0
    /\ timing = 0
    /\ calls = 0

InitNotes ==
    /\ notes = <<>>
    /\ spawned = 0
    /\ hits = <<>>
    /\ positions = <<>>
    /\ prev_notes = <<>>

\* A MaiMaiTrainer whose hit resolution has not run yet.
InitHit ==
    /\ now = StartTime
    /\ ticks = 0
    /\ hit_calls = 0
    /\ last_hit_time = 0
    /\ last_dot_time = 0
    /\ last_finger_positions = [f \in FingerIds |-> None]
    /\ hit_stats = [k \in ButtonNames |-> 0]
    /\ arg_id = 0
    /\ arg_hand = 0
    /\ last_finger_hand = [f \in FingerIds |-> None]
    /\ accepted = 0
    /\ ret = FALSE
    /\ arg_point = None

\* CoordinateMapper.__init__
InitCalibration ==
    /\ calibration_points = <<>>
    /\ transformation_matrix = None
    /\ raised = FALSE

\* HandTracker.__init__: no fingertip has been seen.
InitTracker ==
    /\ prev_positions = [id \in GestureIds |-> None]
    /\ gesture_calls = 0

\* MaiMaiTrainer.__init__ with the configured DEV_MODE.
InitLoop ==
    /\ frame_counter = 0
    /\ dev_enabled = FALSE
    /\ calibrating = ~dev_enabled
    /\ trace = <<>>
    /\ pending = <<>>

\* A VideoAnalyzer constructed beside the mapping file f.
InitAnalyzer(f) ==
    /\ file = f
    /\ manual_buttons = load_button_mapping(f).manual_buttons
    /\ screen_center = load_button_mapping(f).screen_center
    /\ screen_radius = load_button_mapping(f).screen_radius
    /\ mapping_mode = FALSE
    /\ current_mapping_button = None
    /\ clicks = 0
    /\ detects = 0
    /\ session_clicks = 0

\* A fresh ScoreManager driven by add_hit and add_miss.
Init ==
    /\ InitScore
    /\ InitNotes
    /\ InitHit
    /\ InitCalibration
    /\ InitTracker
    /\ InitLoop
    /\ InitAnalyzer(None)
    /\ angle = 0
    /\ section = "NONE"
    /\ op = "init"

Next == AddHit \/ AddMiss

Spec == Init /\ [][Next]_vars

\* get_hit_section applied to every angle of [0, 360) on the half-degree grid.
InitSector ==
    /\ InitScore
    /\ InitNotes
    /\ InitHit
    /\ InitCalibration
    /\ InitTracker
    /\ InitLoop
    /\ InitAnalyzer(None)
    /\ angle \in 0 .. (Deg(360) - 1)
    /\ section = "NONE"
    /\ op = "init"

NextSector == Classify \/ NextAngle

SpecSector == InitSector /\ [][NextSector]_vars

\* A fresh NoteManager driven by add_note, update and check_hits, beside a
\* fresh ScoreManager.
NextNotes == AddNote \/ Update \/ CheckHits

SpecNotes == Init /\ [][NextNotes]_vars

\* check_button_hit called by the frame loop while the clock runs; every
\* frame shows detect_screen the geometry restored from the mapping file.
InitHits ==
    /\ InitScore
    /\ InitNotes
    /\ InitHit
    /\ InitCalibration
    /\ InitTracker
    /\ InitLoop
    /\ \E f \in HitFiles : InitAnalyzer(f)
    /\ angle = 0
    /\ section = "NONE"
    /\ op = "init"

NextHits == Tick \/ CheckButtonHit

SpecHits == InitHits /\ [][NextHits]_vars

\* The mapping session of a VideoAnalyzer constructed beside a mapping file,
\* with detect_screen run on frames in between.
InitMapping ==
    /\ InitScore
    /\ InitNotes
    /\ InitHit
    /\ InitCalibration
    /\ InitTracker
    /\ InitLoop
    /\ \E f \in InitialFiles : InitAnalyzer(f)
    /\ angle = 0
    /\ section = "NONE"
    /\ op = "init"

NextMapping ==
    StartMappingMode \/ StopMappingMode \/ HandleMappingClick \/ DetectScreen

SpecMapping == InitMapping /\ [][NextMapping]_vars

\* A VideoAnalyzer whose constructor has reached its load_button_mapping
\* call, beside any of the mapping files.
InitLoad ==
    /\ InitScore
    /\ InitNotes
    /\ InitHit
    /\ InitCalibration
    /\ InitTracker
    /\ InitLoop
    /\ file \in LoadFiles
    /\ manual_buttons = FreshAnalyzer.manual_buttons
    /\ screen_center = FreshAnalyzer.screen_center
    /\ screen_radius = FreshAnalyzer.screen_radius
    /\ mapping_mode = FALSE
    /\ current_mapping_button = None
    /\ clicks = 0
    /\ detects = 0
    /\ session_clicks = 0
    /\ angle = 0
    /\ section = "NONE"
    /\ op = "init"

NextLoad == LoadButtonMapping

SpecLoad == InitLoad /\ [][NextLoad]_vars

\* The frame loop of a trainer whose analyzer was constructed beside no
\* mapping file or beside one that holds a screen geometry.
InitFrames ==
    /\ InitScore
    /\ InitNotes
    /\ InitHit
    /\ InitCalibration
    /\ InitTracker
    /\ InitLoop
    /\ \E f \in HitFiles \cup {None} : InitAnalyzer(f)
    /\ angle = 0
    /\ section = "NONE"
    /\ op = "init"

NextFrames == ToggleDevMode \/ UpdateCall \/ UpdateCheckButtonHit \/ FrameTick

SpecFrames == InitFrames /\ [][NextFrames]_vars

\* A fresh CoordinateMapper driven by its three methods.
NextCalibration ==
    AddCalibrationPoint \/ CalculateTransformation \/ MapCoordinates

SpecCalibration == Init /\ [][NextCalibration]_vars

\* A fresh HandTracker given fingertip positions one at a time.
NextGesture == DetectGesture

SpecGesture == Init /\ [][NextGesture]_vars

----------------------------------------------------------------------------
(* Claims about get_hit_section, checked under SpecSector *)

\* The reference classification of C1: with a = (theta - 90) mod 360, the
\* k-th name, k = floor(((a + 22.5) mod 360) / 45).
SectorReference(theta) ==
    LET a == (theta - Deg(90)) % Deg(360)
        k == ((a + Deg(22) + 1) % Deg(360)) \div Deg(45)
    IN  SectionNames[k + 1]

\* C1: for every angle theta in [0,360), get_hit_section(theta) is the name
\* the reference classification gives: eight 45-degree arcs, one per name,
\* with TOP wrapping over the adjusted angle 0.
C1_SectionIsReference ==
    section # "NONE" => section = SectorReference(angle)

----------------------------------------------------------------------------
(* Claims about the ScoreManager, checked under Spec *)

\* C2: add_hit(t) applies exactly one tier, the first whose threshold t
\* satisfies: t <= 50 adds 100 to score, 1 to perfects, 1 to combo;
\* 50 < t <= 100 adds 80, 1 to greats, 1 to combo; 100 < t <= 150 adds 50,
\* 1 to goods, 1 to combo; t > 150 adds 1 to misses, zeroes combo and leaves
\* score alone; no other counter changes.
C2_AddHitTier ==
    [][op' = "add_hit" =>
        LET t == timing'
        IN  /\ t <= 50 =>
                 /\ score' = score + 100
                 /\ perfects' = perfects + 1
                 /\ combo' = combo + 1
                 /\ UNCHANGED <<greats, goods, misses>>
            /\ (50 < t /\ t <= 100) =>
                 /\ score' = score + 80
                 /\ greats' = greats + 1
                 /\ combo' = combo + 1
                 /\ UNCHANGED <<perfects, goods, misses>>
            /\ (100 < t /\ t <= 150) =>
                 /\ score' = score + 50
                 /\ goods' = goods + 1
                 /\ combo' = combo + 1
                 /\ UNCHANGED <<perfects, greats, misses>>
            /\ t > 150 =>
                 /\ misses' = misses + 1
                 /\ combo' = 0
                 /\ UNCHANGED <<score, perfects, greats, goods>>]_vars

\* A hit outside every window has just broken a combo built by a PERFECT
\* and a GREAT.
C2_Witness ==
    /\ op = "add_hit"
    /\ timing = 151
    /\ score = 180
    /\ perfects = 1
    /\ greats = 1
    /\ misses = 1
    /\ combo = 0

\* C3: max_combo never decreases from one state to the next, whatever
\* sequence of add_hit and add_miss calls is made.
C3_MaxComboMonotone == [][max_combo' >= max_combo]_vars

\* A combo of at least 2 was reset by a hit outside every window and
\* max_combo kept its value.
C3_Witness ==
    /\ op = "add_hit"
    /\ timing > 150
    /\ combo = 0
    /\ max_combo >= 2

\* C4: in every state reachable from a fresh ScoreManager, max_combo >= combo.
C4_MaxComboBoundsCombo == max_combo >= combo

\* A second streak is running below the maximum an earlier streak set.
C4_Witness ==
    /\ op = "add_hit"
    /\ combo = 1
    /\ max_combo = 3
    /\ misses = 1

\* C5: add_miss() sets combo to 0 and adds exactly 1 to misses, whatever the
\* prior state, and leaves score, max_combo, perfects, greats and goods alone.
C5_AddMissEffect ==
    [][op' = "add_miss" =>
        /\ combo' = 0
        /\ misses' = misses + 1
        /\ UNCHANGED <<score, max_combo, perfects, greats, goods>>]_vars

\* add_miss has just ended a combo of 3.
C5_Witness ==
    /\ op = "add_miss"
    /\ combo = 0
    /\ max_combo = 3
    /\ score > 0
    /\ misses = 1

\* C6: get_accuracy() is 0 when nothing was judged and otherwise
\* (perfects+greats+goods) / (perfects+greats+goods+misses) * 100; it never
\* divides by zero and lies in [0,100].
C6_AccuracySafe ==
    LET judged == perfects + greats + goods
        total == judged + misses
        acc == get_accuracy
    IN  /\ ~acc.raises
        /\ acc.den > 0
        /\ total = 0 => acc.num = 0
        /\ total # 0 => acc.num * total = judged * 100 * acc.den
        /\ 0 <= acc.num
        /\ acc.num <= 100 * acc.den

\* Three judged notes, one of them missed: the accuracy is 200/3.
C6_Witness ==
    /\ perfects + greats + goods = 2
    /\ misses = 1
    /\ get_accuracy.num * 3 = 200 * get_accuracy.den

----------------------------------------------------------------------------
(* Claims about the NoteManager, checked under SpecNotes *)

\* The distance on the circle between two angles given in degrees: the
\* shorter of the two arcs between the directions they name.
CircularDistance(a, b) ==
    LET m == (a - b) % 360
    IN  IF m > 180 THEN 360 - m ELSE m

\* Some position of the last check_hits call lies within the code's angular
\* tolerance of the note.
AngleMatched(note) ==
    \E k \in 1 .. Len(positions) :
        AngleDiff(HitAngle(positions[k]), note.angle) < 60

\* C7: a check_hits call that carries a single gesture/position removes and
\* returns at most one note, even when several active notes satisfy the
\* angular and radius tolerances.
C7_OneHitOneNote ==
    (op = "check_hits" /\ Len(positions) = 1) => Len(hits) <= 1

\* C8: check_hits consumes a note only if the distance on the circle between
\* the note's angle and a hit angle is below 60 degrees and the note's radius
\* is inside the hit window, for every note angle add_note accepts and every
\* hit angle in [0,360).
C8_ConsumedOnlyIfNear ==
    op = "check_hits" =>
        \A i \in 1 .. Len(hits) :
            /\ \E k \in 1 .. Len(positions) :
                  CircularDistance(hits[i].angle, HitAngle(positions[k])) < 60
            /\ Px(180) <= hits[i].radius
            /\ hits[i].radius <= Px(420)

\* C9 as stated: the radius window is the closed interval [180, 420], so no
\* note at radius exactly 180 or exactly 420 whose angle matches the hit is
\* left in the list by check_hits.
C9_ClosedWindow ==
    op = "check_hits" =>
        \A i \in 1 .. Len(notes) :
            (notes[i].radius \in {Px(180), Px(420)}) => ~AngleMatched(notes[i])

\* C9 as amended: the radius window of check_hits is the open interval
\* (180, 420): every note check_hits returns has 180 < radius < 420, and a
\* note whose angle matches the hit stays in the list exactly when its radius
\* is <= 180 or >= 420, the radii 180 and 420 themselves included.
C9_OpenWindow ==
    op = "check_hits" =>
        /\ \A i \in 1 .. Len(hits) :
              /\ Px(180) < hits[i].radius
              /\ hits[i].radius < Px(420)
        /\ \A i \in 1 .. Len(notes) :
              AngleMatched(notes[i]) =>
                  (notes[i].radius <= Px(180) \/ notes[i].radius >= Px(420))

\* check_hits has returned a note at radius 412.5 and left in the list a
\* note at radius exactly 420 whose angle matches the hit.
C9_Witness ==
    /\ op = "check_hits"
    /\ \E i \in 1 .. Len(hits) : hits[i].radius = Px(412) + 1
    /\ \E i \in 1 .. Len(notes) :
          /\ notes[i].radius = Px(420)
          /\ AngleMatched(notes[i])

\* C10: every note NoteManager.update removes because its radius dropped
\* below 0 is reported to the ScoreManager: misses grows by the number of
\* notes the update removed.
C10_ExpiryCountsAsMiss ==
    [][op' = "update" => misses' = misses + (Len(notes) - Len(notes'))]_vars

----------------------------------------------------------------------------
(* Claims about the life of a note, checked under SpecNotes *)

\* The identities of the Note objects of a list.
Ids(ns) == {ns[i].id : i \in 1 .. Len(ns)}

\* C11: over any sequence of add_note, update and check_hits calls a note is
\* returned by check_hits at most once, and a note that has left the active
\* set is never returned later: the active set holds each note once, only
\* add_note puts a note into it and that note is a new one, and check_hits
\* returns each note once, only notes that were active before the call, and
\* none of them is active after it.
C11_ReturnedAtMostOnce ==
    /\ \A i, j \in 1 .. Len(notes) : notes[i].id = notes[j].id => i = j
    /\ op \in {"update", "check_hits"} => Ids(notes) \subseteq Ids(prev_notes)
    /\ op = "add_note" =>
          /\ Ids(notes) = Ids(prev_notes) \cup {spawned}
          /\ spawned \notin Ids(prev_notes)
    /\ \A i \in 1 .. Len(notes) : notes[i].id \in 1 .. spawned
    /\ op = "check_hits" =>
          /\ \A i, j \in 1 .. Len(hits) : hits[i].id = hits[j].id => i = j
          /\ Ids(hits) \subseteq Ids(prev_notes)
          /\ Ids(hits) \cap Ids(notes) = {}

\* check_hits has returned one of two active notes and left the other.
C11_Witness ==
    /\ op = "check_hits"
    /\ Len(hits) = 1
    /\ Len(notes) = 1
    /\ Len(prev_notes) = 2

\* C12: a note is created at radius 450, loses exactly 7.5 on every
\* NoteManager.update while it is in the active set, stays there as long as
\* its radius is >= 0 and is removed by the first update that makes it
\* negative; so an active note's radius is 450 - 7.5 k for the number
\* k <= 60 of updates it has survived, the 61st removes it, and no note of
\* the active set ever has radius < 0 or active = False.
C12_NoteLifetime ==
    /\ op = "add_note" => notes[Len(notes)].radius = Px(450)
    /\ op = "update" =>
          notes = SelectSeq([i \in 1 .. Len(prev_notes) |->
                                [prev_notes[i] EXCEPT
                                    !.radius = @ - (Px(15) \div 2)]],
                            LAMBDA n : n.radius >= 0)
    /\ \A i \in 1 .. Len(notes) :
          /\ notes[i].active
          /\ \E k \in 0 .. 60 :
                notes[i].radius = Px(450) - k * (Px(15) \div 2)

\* An update has removed a note that stood at radius 0 and has left another
\* note at radius exactly 0.
C12_Witness ==
    /\ op = "update"
    /\ Len(notes) < Len(prev_notes)
    /\ \E i \in 1 .. Len(notes) : notes[i].radius = 0

----------------------------------------------------------------------------
(* Claims about check_button_hit, checked under SpecHits *)

\* The last step was a check_button_hit call that got past the cooldown test
\* and found a previous position for its finger_id: the call that measures a
\* movement.  Stated over a step, with the call's arguments primed.
MeasuresMovement ==
    /\ op' = "check_button_hit"
    /\ now - last_hit_time >= 50
    /\ last_finger_positions[arg_id'] # None

\* C13: the hit cooldown is global.  A check_button_hit call returns True
\* only if at least 50 ms have passed since the last call that returned True,
\* whatever the tracked points of the two calls; last_hit_time is the time of
\* that last call; and a call made less than 50 ms after it returns False.
C13_GlobalCooldown ==
    [][/\ op' = "check_button_hit" =>
             /\ (accepted > 0 /\ now' - last_hit_time < 50) => ~ret'
             /\ ret' => last_hit_time' = now'
             /\ ~ret' => last_hit_time' = last_hit_time
       /\ op' # "check_button_hit" => last_hit_time' = last_hit_time
       /\ now' >= now]_vars

\* A second hit has been accepted exactly 50 ms after the first.
C13_Witness ==
    /\ op = "check_button_hit"
    /\ ret
    /\ accepted = 2
    /\ now = StartTime + 50

\* C14 as stated: the first call for a finger_id that has no recorded
\* position returns False, records the given position for the id and changes
\* neither last_hit_time nor any hit counter, wherever the point lies.
C14_FirstCallSeeds ==
    [][(op' = "check_button_hit" /\ last_finger_positions[arg_id'] = None) =>
           /\ ~ret'
           /\ last_finger_positions'[arg_id'] = arg_point'
           /\ last_hit_time' = last_hit_time
           /\ hit_stats' = hit_stats]_vars

\* C14 as amended: the first call for a finger_id that has no recorded
\* position returns False and changes neither last_hit_time nor any hit
\* counter, wherever the point lies; it records the given position for the id
\* when at least 50 ms have passed since last_hit_time, and records nothing
\* when the call falls inside the cooldown.
C14_FirstCallSeedsOutsideCooldown ==
    [][(op' = "check_button_hit" /\ last_finger_positions[arg_id'] = None) =>
           /\ ~ret'
           /\ last_hit_time' = last_hit_time
           /\ hit_stats' = hit_stats
           /\ now - last_hit_time >= hit_cooldown =>
                  last_finger_positions'[arg_id'] = arg_point'
           /\ now - last_hit_time < hit_cooldown =>
                  last_finger_positions' = last_finger_positions]_vars

\* A first call for a finger_id has been made inside the cooldown of an
\* accepted hit and has left the id without a position, while the other id
\* was seeded by its own first call.
C14_Witness ==
    /\ op = "check_button_hit"
    /\ accepted > 0
    /\ now - last_hit_time < hit_cooldown
    /\ last_finger_positions[arg_id] = None
    /\ \E f \in FingerIds : last_finger_positions[f] # None

\* C15: when the cooldown has elapsed, a previous position exists for the id
\* and a screen centre and a radius r > 0 are set, check_button_hit returns
\* True exactly when the movement since the previous position is at least
\* 10 px and the distance d from the centre satisfies 0.7 r < d < 0.9 r.
C15_HitIffMovedInRing ==
    [][(MeasuresMovement /\ screen_center # None /\ screen_radius # None
        /\ Val(screen_radius) > 0) =>
           LET msq == DistanceSq(arg_point', last_finger_positions[arg_id'])
               dsq == DistanceSq(arg_point', screen_center)
               r == Val(screen_radius)
           IN  ret' <=> /\ msq >= 10 * 10
                        /\ 49 * r * r < 100 * dsq
                        /\ 100 * dsq < 81 * r * r]_vars

\* The sum of the eight hit_stats counters.
TotalHitStats == SumOver(hit_stats, button_keys, 1)

\* C16: each accepted hit raises the counter of exactly one sector, the one
\* get_hit_section gives for the hit angle, by exactly 1 and leaves the other
\* seven alone; so the eight counters always sum to the number of accepted
\* hits.
C16_OneCountPerHit ==
    /\ [](TotalHitStats = accepted)
    /\ [][(op' = "check_button_hit" /\ ret') =>
              LET a == ButtonHitAngle(arg_point'[2] - screen_center[2],
                                      arg_point'[1] - screen_center[1])
                  s == get_hit_section(a)
              IN  hit_stats' = [hit_stats EXCEPT ![s] = hit_stats[s] + 1]]_vars

\* C17: the previous position a movement is measured against was recorded
\* for the same fingertip of the same hand as the one the call is given,
\* never for the other hand.
C17_PositionsPerHand ==
    [][MeasuresMovement => last_finger_hand[arg_id'] = Some(arg_hand')]_vars

----------------------------------------------------------------------------
(* Claims about the button mapping, checked under SpecMapping *)

\* The fixed order of the sectors.
SectorOrder ==
    <<"TOP", "TOP_RIGHT", "RIGHT", "BOTTOM_RIGHT",
      "BOTTOM", "BOTTOM_LEFT", "LEFT", "TOP_LEFT">>

\* The last step was a handle_mapping_click call that returned True.  Stated
\* over a step.
ClickAccepted == op' = "handle_mapping_click" /\ ret'

NextUnbound(key, buttons) ==
    LET i == CHOOSE n \in 1 .. 8 : SectorOrder[n] = key
        later == {j \in (i + 1) .. 8 : buttons[SectorOrder[j]] = None}
    IN  IF later = {} THEN None
        ELSE <<SectorOrder[CHOOSE j \in later : \A m \in later : j <= m]>>

\* C19 as stated: after an accepted click the sector awaiting the next click
\* is the next sector in the fixed order that is still unbound; sectors that
\* already have a position are skipped and their positions are not
\* overwritten.
C19_AdvancesToNextUnbound ==
    [][ClickAccepted =>
           /\ current_mapping_button' =
                  NextUnbound(Val(current_mapping_button), manual_buttons')
           /\ \A s \in DOMAIN manual_buttons :
                  manual_buttons[s] # None =>
                      manual_buttons'[s] = manual_buttons[s]]_vars

\* C19 as amended: after an accepted click the sector awaiting the next click
\* is the next sector in the fixed order, whether or not it already has a
\* position (none after TOP_LEFT); a session always starts at TOP, and the
\* click binds its sector to the clicked point even when the sector already
\* had a position, which is overwritten.
C19_AdvancesInOrder ==
    [][/\ op' = "start_mapping_mode" => current_mapping_button' = <<"TOP">>
       /\ ClickAccepted =>
              LET i == CHOOSE n \in 1 .. 8 :
                           SectorOrder[n] = Val(current_mapping_button)
              IN  /\ current_mapping_button' =
                         IF i < 8 THEN <<SectorOrder[i + 1]>> ELSE None
                  /\ manual_buttons'[SectorOrder[i]] = arg_point']_vars

\* A click has overwritten the position the mapping file holds for TOP, and
\* the sector now awaiting a click, TOP_RIGHT, has a position already.
C19_Witness ==
    /\ op = "handle_mapping_click"
    /\ ret
    /\ file # None
    /\ Val(file).buttons["TOP"] # None
    /\ Val(Val(file).buttons["TOP"]).x # manual_buttons["TOP"][1]
    /\ current_mapping_button = <<"TOP_RIGHT">>
    /\ manual_buttons["TOP_RIGHT"] # None

\* C20: whenever mapping mode is stopped, by stop_mapping_mode or by the last
\* click, loading the document just written into a fresh VideoAnalyzer
\* yields the same eight bindings and the same screen centre and radius as
\* the state that was saved.
C20_RoundTrip ==
    (\/ op = "stop_mapping_mode"
     \/ op = "handle_mapping_click" /\ ret /\ ~mapping_mode) =>
        /\ load_button_mapping(file).manual_buttons = manual_buttons
        /\ load_button_mapping(file).screen_center = screen_center
        /\ load_button_mapping(file).screen_radius = screen_radius

----------------------------------------------------------------------------
(* Claims about detect_screen, checked under SpecMapping *)

\* C22: whenever detect_screen reports success the geometry it leaves is
\* valid, screen_radius > 0; the manual strategy in particular, which
\* succeeds for any eight bound positions, leaves a radius > 0.
C22_SuccessGivesPositiveRadius ==
    (op = "detect_screen" /\ ret) =>
        /\ screen_center # None
        /\ screen_radius # None
        /\ Val(screen_radius) > 0

\* C23: a detect_screen call that returns False (no frame, or no contour
\* that passes the circularity and radius tests) leaves screen_center and
\* screen_radius exactly as they were, so a geometry set by an earlier
\* successful call is kept across failing frames.
C23_FailureKeepsGeometry ==
    [][(op' = "detect_screen" /\ ~ret') =>
           /\ screen_center' = screen_center
           /\ screen_radius' = screen_radius]_vars

\* A detect_screen call has failed and the circle an earlier call found,
\* centre (320, 240) and radius 200, is still the geometry.
C23_Witness ==
    /\ op = "detect_screen"
    /\ ~ret
    /\ detects = 2
    /\ screen_center = <<320, 240>>
    /\ screen_radius = <<200>>

----------------------------------------------------------------------------
(* Claims about the recorded finger positions, checked under SpecHits *)

\* C30: a check_button_hit call rejected by the global cooldown leaves
\* last_finger_positions unchanged for every id, and every call that passes
\* the cooldown test records the given position for its id, and for no other
\* id, whether or not a hit results; so the first call after a cooldown
\* measures its movement from the last position recorded before the
\* cooldown began.
C30_CooldownKeepsPositions ==
    [][op' = "check_button_hit" =>
           /\ now - last_hit_time < hit_cooldown =>
                  last_finger_positions' = last_finger_positions
           /\ now - last_hit_time >= hit_cooldown =>
                  last_finger_positions' =
                      [last_finger_positions EXCEPT ![arg_id'] = arg_point']]_vars

\* A call inside the cooldown of an accepted hit has been given a point
\* other than the one recorded for its id, and the recorded one stands.
C30_Witness ==
    /\ op = "check_button_hit"
    /\ accepted > 0
    /\ now - last_hit_time < hit_cooldown
    /\ last_finger_positions[arg_id] # None
    /\ last_finger_positions[arg_id] # arg_point

----------------------------------------------------------------------------
(* Claims about the sector angles, checked under SpecSector *)

\* C28: the sector-to-angle assignment is one assignment across the program:
\* for every sector name s the two note-spawn tables give the same angle, and
\* get_hit_section classifies the angle either table gives for s back to s.
C28_OneSectorAngleAssignment ==
    section # "NONE" =>
        \A i \in 1 .. Len(SectionNames) :
            LET s == SectionNames[i]
            IN  /\ region_angles[s] = region_to_angle(s)
                /\ angle \in {Deg(region_angles[s]), Deg(region_to_angle(s))}
                       => section = s

----------------------------------------------------------------------------
(* Claims about the CoordinateMapper, checked under SpecCalibration *)

\* C25: is_calibrated() is False in the initial state and stays False under
\* add_calibration_point and under a calculate_transformation call made with
\* fewer than 4 pairs, which returns False and leaves the mapper unchanged,
\* so that map_coordinates keeps returning the linear scaling; it is True
\* right after a calculate_transformation call that returned True, and once
\* True it never becomes False.
C25_CalibratedOnlyBySuccess ==
    /\ [](op = "init" => ~is_calibrated)
    /\ [][/\ op' = "add_calibration_point" =>
                 is_calibrated' = is_calibrated
          /\ (op' = "calculate_transformation"
                  /\ Len(calibration_points) < 4) =>
                 /\ ret' = FALSE
                 /\ ~raised'
                 /\ calibration_points' = calibration_points
                 /\ transformation_matrix' = transformation_matrix
          /\ (op' = "map_coordinates" /\ ~is_calibrated) =>
                 ret' = LinearScaling(arg_point')
          /\ (op' = "calculate_transformation" /\ ~raised' /\ ret' = TRUE) =>
                 is_calibrated'
          /\ is_calibrated => is_calibrated']_vars

\* calculate_transformation has just returned True.
C25_Witness ==
    /\ op = "calculate_transformation"
    /\ ~raised
    /\ ret = TRUE
    /\ is_calibrated

\* C26: calculate_transformation succeeds whenever at least 4 pairs have been
\* added: for every number n >= 4 of stored pairs it returns True without
\* raising and is_calibrated() becomes True; it fails only when n < 4.
C26_SucceedsFromFourPairs ==
    op = "calculate_transformation" =>
        IF Len(calibration_points) >= 4
        THEN ~raised /\ ret = TRUE /\ is_calibrated
        ELSE ~raised /\ ret = FALSE

----------------------------------------------------------------------------
(* Claims about detect_gesture, checked under SpecGesture *)

----------------------------------------------------------------------------
(* Claims about the frame loop, checked under SpecFrames *)

\* The update calls that ran in dev mode with calibration over.
DevModeUpdates == {"skipped", "no_frame", "no_results", "hit_detection"}

\* C24: on a tick whose screen detection fails, hit resolution and button
\* detection are skipped only if no screen geometry has ever been
\* established; when a geometry from an earlier detection or from the mapping
\* file exists, analyze_frame still reports it and the tick goes on to button
\* detection and the check_button_hit calls with the retained geometry.
C24_RetainedGeometryIsUsed ==
    [][(/\ op' = "update"
        /\ trace'[Len(trace')] \in {"no_results", "hit_detection"}
        /\ ~ret') =>
           (trace'[Len(trace')] = "hit_detection"
                <=> (TruthyTuple(screen_center)
                         /\ TruthyNumber(screen_radius)))]_vars

\* C29: in dev mode and when not calibrating, hit detection runs on every
\* 3rd update only: of any 3 consecutive update calls exactly one performs
\* hit detection (gets past the frame-skip test) and the other two return
\* after only expiring hit dots.
C29_EveryThirdUpdate ==
    \A i \in 1 .. Len(trace) - 2 :
        (\A j \in i .. i + 2 : trace[j] \in DevModeUpdates) =>
            Cardinality({j \in i .. i + 2 : trace[j] # "skipped"}) = 1

----------------------------------------------------------------------------
(* Claims about load_button_mapping, checked under SpecLoad *)

\* A document load_button_mapping can read to the end: it has the buttons
\* and the screen entry, every sector is null or a point, and the screen is
\* null or a centre point with a radius.
WellFormed(doc) ==
    /\ "buttons" \in DOMAIN doc
    /\ "screen" \in DOMAIN doc
    /\ \A k \in ButtonNames :
          doc.buttons[k] = None \/ ReadablePoint(doc.buttons[k])
    /\ \/ doc.screen = None
       \/ /\ "center" \in DOMAIN Val(doc.screen)
          /\ ReadablePoint(Val(doc.screen).center)
          /\ "radius" \in DOMAIN Val(doc.screen)

\* C21: if the mapping document is missing or malformed (invalid content, no
\* buttons entry, no screen entry, or an entry of the wrong shape),
\* load_button_mapping raises nothing and the mapper starts with the empty
\* default mapping: all 8 sectors unbound and no screen centre or radius.
C21_MalformedStartsEmpty ==
    (op = "load_button_mapping"
         /\ (file = None \/ ~WellFormed(Val(file)))) =>
        /\ \A k \in ButtonNames : manual_buttons[k] = None
        /\ screen_center = None
        /\ screen_radius = None

====
